---- MODULE Spec2Model ----
(***************************************************************************)
(* A model of KLEE's AddressSpace (lib/Core/AddressSpace.cpp): the         *)
(* copy-on-write object map with its segment index, and the pointer        *)
(* resolvers resolveConstantAddress, resolveOne and resolve.               *)
(*                                                                         *)
(* Integer widths are scaled down so that the model is finite: a uint64_t  *)
(* address is a number below AddressModulus and the `unsigned` of          *)
(* resolveConstantAddress is a number below UnsignedModulus.               *)
(***************************************************************************)
EXTENDS Integers, Sequences, FiniteSets, TLC

VARIABLES cowKey, objects, segmentMap, heap, nextKey, aborted, last, call

vars == <<cowKey, objects, segmentMap, heap, nextKey, aborted, last, call>>

(***************************************************************************)
(* Bounds of the model.                                                    *)
(***************************************************************************)
MaxAS == 2          \* address-space instances that can exist
MaxOS == 2          \* ObjectState cells that can be live at once
MaxByte == 1        \* a byte of a concrete store is 0..MaxByte

AddressSpaces == 1..MaxAS
ObjectStates == 1..MaxOS
Bytes == 0..MaxByte
NoOS == 0
NoMO == "none"

(***************************************************************************)
(* The memory objects.  A MemoryObject is immutable after creation; the    *)
(* allocator gives distinct objects distinct addresses and distinct        *)
(* non-zero segments.                                                      *)
(*   A  flat object            [1,2)                                       *)
(*   B  segment 1, its size does not fit the `unsigned` of line 83         *)
(*   Z  zero-sized flat object at 5                                        *)
(*   S  segment 2, symbolic size                                           *)
(***************************************************************************)
MemoryObjects == {"A", "B", "Z", "S"}

address(mo) == CASE mo = "A" -> 1 [] mo = "B" -> 2 [] mo = "Z" -> 5 [] mo = "S" -> 6

\* mo->size is a ConstantExpr; size(mo) is its value.
sizeIsConstant(mo) == mo # "S"

size(mo) == CASE mo = "A" -> 1 [] mo = "B" -> 3 [] mo = "Z" -> 0

segment(mo) == CASE mo = "A" -> 0 [] mo = "B" -> 1 [] mo = "Z" -> 0 [] mo = "S" -> 2

Segments == 0..2

\* The objects bound and unbound where address spaces fork (Spec), and on a
\* single address space (SpecOne).
CowObjects == {"B"}
OneObjects == {"A", "B"}

(***************************************************************************)
(* ObjectState cells.  A cell that is not allocated is FreeCell.           *)
(***************************************************************************)
FreeCell == [allocated |-> FALSE, readOnly |-> FALSE, copyOnWriteOwner |-> 0,
             concreteStore |-> 0]

Live(a) == cowKey[a] # 0

\* The address spaces whose objects map holds ObjectState o (under objs).
Holders(objs, o) == {a \in AddressSpaces : \E mo \in MemoryObjects : objs[a][mo] = o}

\* ref<ObjectState>: a state that was bound (owner # 0) and that no objects
\* map refers to any more is deleted.
Release(h, objs) ==
  [o \in ObjectStates |->
     IF h[o].allocated /\ h[o].copyOnWriteOwner # 0 /\ Holders(objs, o) = {}
     THEN FreeCell ELSE h[o]]

FreeCells == {o \in ObjectStates : ~heap[o].allocated}

\* The cell operator new hands out.
NewCell ==
  IF FreeCells = {} THEN NoOS
  ELSE CHOOSE o \in FreeCells : \A p \in FreeCells : o <= p

NoCall == [op |-> "none"]

Init ==
  /\ cowKey = [a \in AddressSpaces |-> IF a = 1 THEN 1 ELSE 0]
  /\ objects = [a \in AddressSpaces |-> [mo \in MemoryObjects |-> NoOS]]
  /\ segmentMap = [a \in AddressSpaces |-> [s \in Segments |-> NoMO]]
  /\ heap = [o \in ObjectStates |-> FreeCell]
  /\ nextKey = 1
  /\ aborted = FALSE
  /\ last = "none"
  /\ call = NoCall

(***************************************************************************)
(* The caller makes a fresh ObjectState (owner 0) that it will bind.       *)
(***************************************************************************)
NewObjectState(ro, v) ==
  /\ ~aborted
  /\ FreeCells # {}
  /\ \A o \in ObjectStates : heap[o].allocated => heap[o].copyOnWriteOwner # 0
  /\ heap' = [heap EXCEPT ![NewCell] =
                [allocated |-> TRUE, readOnly |-> ro, copyOnWriteOwner |-> 0,
                 concreteStore |-> v]]
  /\ last' = "new"
  /\ UNCHANGED <<cowKey, objects, segmentMap, nextKey, aborted, call>>

(***************************************************************************)
(* AddressSpace::bindObject.  The result is the new value of the state it  *)
(* touches; ok = FALSE is the failed assertion.                            *)
(***************************************************************************)
bindObject_NoSegment(a, mo, o) ==
  IF heap[o].copyOnWriteOwner # 0
  THEN [ok |-> FALSE, heap |-> heap, objects |-> objects, segmentMap |-> segmentMap]
  ELSE [ok |-> TRUE,
        heap |-> [heap EXCEPT ![o].copyOnWriteOwner = cowKey[a]],
        objects |-> [objects EXCEPT ![a][mo] = o],
        segmentMap |-> segmentMap]

bindObject_NoAssert(a, mo, o) ==
  [ok |-> TRUE,
   heap |-> [heap EXCEPT ![o].copyOnWriteOwner = cowKey[a]],
   objects |-> [objects EXCEPT ![a][mo] = o],
   segmentMap |-> IF segment(mo) # 0
                  THEN [segmentMap EXCEPT ![a][segment(mo)] = mo]
                  ELSE segmentMap]

bindObject_WrongKey(a, mo, o) ==
  IF heap[o].copyOnWriteOwner # 0
  THEN [ok |-> FALSE, heap |-> heap, objects |-> objects, segmentMap |-> segmentMap]
  ELSE [ok |-> TRUE,
        heap |-> [heap EXCEPT ![o].copyOnWriteOwner = cowKey[a] + 1],
        objects |-> [objects EXCEPT ![a][mo] = o],
        segmentMap |-> IF segment(mo) # 0
                       THEN [segmentMap EXCEPT ![a][segment(mo)] = mo]
                       ELSE segmentMap]

bindObject(a, mo, o) ==
  IF heap[o].copyOnWriteOwner # 0
  THEN [ok |-> FALSE, heap |-> heap, objects |-> objects, segmentMap |-> segmentMap]
  ELSE [ok |-> TRUE,
        heap |-> [heap EXCEPT ![o].copyOnWriteOwner = cowKey[a]],
        objects |-> [objects EXCEPT ![a][mo] = o],
        segmentMap |-> IF segment(mo) # 0
                       THEN [segmentMap EXCEPT ![a][segment(mo)] = mo]
                       ELSE segmentMap]

BindObject(a, mo, o) ==
  /\ ~aborted /\ Live(a) /\ heap[o].allocated
  /\ LET r == bindObject(a, mo, o) IN
       /\ aborted' = ~r.ok
       /\ objects' = r.objects
       /\ segmentMap' = r.segmentMap
       /\ heap' = Release(r.heap, r.objects)
  /\ last' = "bindObject"
  /\ UNCHANGED <<cowKey, nextKey, call>>

(***************************************************************************)
(* AddressSpace::unbindObject.                                             *)
(***************************************************************************)
unbindObject_KeepSegment(a, mo) ==
  [objects |-> [objects EXCEPT ![a][mo] = NoOS], segmentMap |-> segmentMap]

unbindObject(a, mo) ==
  [objects |-> [objects EXCEPT ![a][mo] = NoOS],
   segmentMap |-> IF segment(mo) # 0
                  THEN [segmentMap EXCEPT ![a][segment(mo)] = NoMO]
                  ELSE segmentMap]

UnbindObject(a, mo) ==
  /\ ~aborted /\ Live(a)
  /\ LET r == unbindObject(a, mo) IN
       /\ objects' = r.objects
       /\ segmentMap' = r.segmentMap
       /\ heap' = Release(heap, r.objects)
  /\ last' = "unbindObject"
  /\ UNCHANGED <<cowKey, nextKey, aborted, call>>

(***************************************************************************)
(* AddressSpace::findObject.                                               *)
(***************************************************************************)
findObject(a, mo) == objects[a][mo]

(***************************************************************************)
(* AddressSpace::getWriteable.  ok = FALSE is the failed assertion         *)
(* !os->readOnly; ret is the state returned.  The clone takes a free cell. *)
(***************************************************************************)
getWriteable_InPlace(a, mo, o) ==
  IF heap[o].readOnly
  THEN [ok |-> FALSE, ret |-> NoOS, heap |-> heap, objects |-> objects]
  ELSE [ok |-> TRUE, ret |-> o,
        heap |-> [heap EXCEPT ![o].copyOnWriteOwner = cowKey[a]],
        objects |-> objects]

getWriteable_CloneKeepsOwner(a, mo, o) ==
  IF heap[o].readOnly
  THEN [ok |-> FALSE, ret |-> NoOS, heap |-> heap, objects |-> objects]
  ELSE IF cowKey[a] = heap[o].copyOnWriteOwner
  THEN [ok |-> TRUE, ret |-> o, heap |-> heap, objects |-> objects]
  ELSE [ok |-> TRUE, ret |-> NewCell,
        heap |-> [heap EXCEPT ![NewCell] = heap[o]],
        objects |-> [objects EXCEPT ![a][mo] = NewCell]]

getWriteable(a, mo, o) ==
  IF heap[o].readOnly
  THEN [ok |-> FALSE, ret |-> NoOS, heap |-> heap, objects |-> objects]
  ELSE IF cowKey[a] = heap[o].copyOnWriteOwner
  THEN [ok |-> TRUE, ret |-> o, heap |-> heap, objects |-> objects]
  ELSE [ok |-> TRUE, ret |-> NewCell,
        heap |-> [heap EXCEPT ![NewCell] =
                    [heap[o] EXCEPT !.copyOnWriteOwner = cowKey[a]]],
        objects |-> [objects EXCEPT ![a][mo] = NewCell]]

\* The call needs a cell for the clone it may make.
CanClone(a, o) ==
  heap[o].readOnly \/ cowKey[a] = heap[o].copyOnWriteOwner \/ FreeCells # {}

GetWriteable(a, mo) ==
  /\ ~aborted /\ Live(a)
  /\ findObject(a, mo) # NoOS
  /\ CanClone(a, findObject(a, mo))
  /\ LET o == findObject(a, mo)
         r == getWriteable(a, mo, o) IN
       /\ aborted' = ~r.ok
       /\ objects' = r.objects
       /\ heap' = Release(r.heap, r.objects)
       /\ last' = "getWriteable"
  /\ UNCHANGED <<cowKey, segmentMap, nextKey, call>>

(***************************************************************************)
(* A write of the executor: it refuses a read-only state, and otherwise    *)
(* writes a byte into the state getWriteable returns.                      *)
(***************************************************************************)
Write(a, mo, v) ==
  /\ ~aborted /\ Live(a)
  /\ findObject(a, mo) # NoOS
  /\ ~heap[findObject(a, mo)].readOnly
  /\ CanClone(a, findObject(a, mo))
  /\ LET o == findObject(a, mo)
         r == getWriteable(a, mo, o) IN
       /\ objects' = r.objects
       /\ heap' = Release([r.heap EXCEPT ![r.ret].concreteStore = v], r.objects)
       /\ last' = "write"
  /\ UNCHANGED <<cowKey, segmentMap, nextKey, aborted, call>>

(***************************************************************************)
(* The copy of an address space made when an execution state forks: the    *)
(* copy shares every binding, and the two address spaces get keys that no  *)
(* address space has held before.                                          *)
(***************************************************************************)
UnusedSlots == {b \in AddressSpaces : ~Live(b)}

Fork(a) ==
  /\ ~aborted /\ Live(a)
  /\ UnusedSlots # {}
  /\ LET b == CHOOSE x \in UnusedSlots : \A y \in UnusedSlots : x <= y IN
       /\ cowKey' = [cowKey EXCEPT ![a] = nextKey + 1, ![b] = nextKey + 2]
       /\ objects' = [objects EXCEPT ![b] = objects[a]]
       /\ segmentMap' = [segmentMap EXCEPT ![b] = segmentMap[a]]
       /\ last' = "fork"
  /\ nextKey' = nextKey + 2
  /\ UNCHANGED <<heap, aborted, call>>

(***************************************************************************)
(* Spec: the copy-on-write operations on forking address spaces, over      *)
(* writable object states.                                                 *)
(***************************************************************************)
Next ==
  \/ \E v \in Bytes : NewObjectState(FALSE, v)
  \/ \E a \in AddressSpaces, mo \in CowObjects, o \in ObjectStates : BindObject(a, mo, o)
  \/ \E a \in AddressSpaces, mo \in CowObjects : UnbindObject(a, mo)
  \/ \E a \in AddressSpaces, mo \in CowObjects : GetWriteable(a, mo)
  \/ \E a \in AddressSpaces, mo \in CowObjects, v \in Bytes : Write(a, mo, v)
  \/ \E a \in AddressSpaces : Fork(a)

Spec == Init /\ [][Next]_vars

(***************************************************************************)
(* SpecOne: bindObject, unbindObject and getWriteable on one address       *)
(* space that is never forked.                                             *)
(***************************************************************************)
NextOne ==
  \/ \E ro \in BOOLEAN, v \in Bytes : NewObjectState(ro, v)
  \/ \E mo \in OneObjects, o \in ObjectStates : BindObject(1, mo, o)
  \/ \E mo \in OneObjects : UnbindObject(1, mo)
  \/ \E mo \in OneObjects : GetWriteable(1, mo)
  \/ \E mo \in OneObjects, v \in Bytes : Write(1, mo, v)

SpecOne == Init /\ [][NextOne]_vars

(***************************************************************************)
(* What findObject shows of an address space: for every memory object the  *)
(* state bound to it and that state's contents.                            *)
(***************************************************************************)
View(a) ==
  [mo \in MemoryObjects |->
     IF findObject(a, mo) = NoOS THEN <<NoOS, 0, FALSE>>
     ELSE <<findObject(a, mo), heap[findObject(a, mo)].concreteStore,
            heap[findObject(a, mo)].readOnly>>]

\* A step that is bindObject, unbindObject, getWriteable or a write on a.
MutationOn(a) ==
  \E mo \in CowObjects :
    \/ \E o \in ObjectStates : BindObject(a, mo, o)
    \/ UnbindObject(a, mo)
    \/ GetWriteable(a, mo)
    \/ \E v \in Bytes : Write(a, mo, v)

\* C1: a bindObject, unbindObject, getWriteable or write on one address space
\* leaves what findObject shows of every other address space unchanged, the
\* bound state and its contents alike.
C1_ForkIsolation ==
  [][\A a \in AddressSpaces :
       MutationOn(a) => \A b \in AddressSpaces \ {a} : View(b)' = View(b)]_vars

\* C1 witness: after a fork, a write on one side left the two address spaces
\* with different states of different contents for the same object.
C1_Witness ==
  /\ last = "write" /\ Live(1) /\ Live(2)
  /\ \E mo \in CowObjects :
       /\ findObject(1, mo) # NoOS /\ findObject(2, mo) # NoOS
       /\ findObject(1, mo) # findObject(2, mo)
       /\ heap[findObject(1, mo)].concreteStore # heap[findObject(2, mo)].concreteStore

\* C2: on an address space that is never forked, every bound ObjectState has
\* copyOnWriteOwner 0 or the address space's cowKey.
C2_OwnerIsKey ==
  \A mo \in MemoryObjects :
    findObject(1, mo) # NoOS =>
      heap[findObject(1, mo)].copyOnWriteOwner \in {0, cowKey[1]}

\* C2 witness: getWriteable has returned on an address space with two bound
\* objects.
C2_Witness ==
  /\ last = "getWriteable" /\ ~aborted
  /\ findObject(1, "A") # NoOS /\ findObject(1, "B") # NoOS

\* The address spaces that hold o and may write it in place.
Writers(o) ==
  {a \in Holders(objects, o) : cowKey[a] = heap[o].copyOnWriteOwner}

\* C3: an ObjectState with non-zero owner is never held by two address
\* spaces whose cowKey is its owner, and a state some address space may
\* write in place is held by no other address space.
C3_SingleWriter ==
  \A o \in ObjectStates :
    heap[o].allocated /\ heap[o].copyOnWriteOwner # 0 =>
      /\ Cardinality(Writers(o)) <= 1
      /\ Writers(o) # {} => Holders(objects, o) = Writers(o)

\* C3 witness: after a fork and a getWriteable, one address space owns its
\* state of an object while the other holds another state of it.
C3_Witness ==
  /\ last = "getWriteable" /\ ~aborted /\ Live(1) /\ Live(2)
  /\ \E o \in ObjectStates, p \in ObjectStates :
       /\ o # p /\ heap[o].allocated /\ heap[p].allocated
       /\ Writers(o) = {2} /\ 1 \in Holders(objects, p)

\* C4 as claimed: for every segment s, zero included, segmentMap[s] = mo
\* exactly when mo is bound and mo.segment = s.
C4_Original ==
  \A s \in Segments, mo \in MemoryObjects :
    segmentMap[1][s] = mo <=> (findObject(1, mo) # NoOS /\ segment(mo) = s)

\* C4, amended: for every non-zero segment s, segmentMap[s] = mo exactly
\* when mo is bound and mo.segment = s; segment 0 is never a key.
C4_SegmentMapAgrees ==
  /\ \A s \in Segments \ {0}, mo \in MemoryObjects :
       segmentMap[1][s] = mo <=> (findObject(1, mo) # NoOS /\ segment(mo) = s)
  /\ segmentMap[1][0] = NoMO

\* C4 witness: after a bindObject the segmented object is in both maps and
\* an object of segment 0 is bound too.
C4_Witness ==
  /\ last = "bindObject" /\ ~aborted
  /\ findObject(1, "A") # NoOS /\ segmentMap[1][1] = "B"

\* C5: when getWriteable(mo, os) has returned r, getWriteable(mo, r) in the
\* state it left returns r again and changes neither objects nor any state.
C5_Idempotent ==
  [][\A a \in AddressSpaces, mo \in CowObjects :
       GetWriteable(a, mo) /\ ~aborted' =>
         \E r \in ObjectStates :
           /\ r = getWriteable(a, mo, findObject(a, mo)).ret
           /\ (getWriteable(a, mo, r).ret = r)'
           /\ (getWriteable(a, mo, r).objects = objects)'
           /\ (getWriteable(a, mo, r).heap = heap)']_vars

\* C5 witness: getWriteable has cloned a shared state for address space 2.
C5_Witness ==
  /\ last = "getWriteable" /\ ~aborted /\ Live(2)
  /\ \E mo \in CowObjects :
       /\ findObject(1, mo) # NoOS /\ findObject(2, mo) # NoOS
       /\ findObject(1, mo) # findObject(2, mo)
       /\ heap[findObject(2, mo)].copyOnWriteOwner = cowKey[2]

\* C6: bindObject(mo, os) with os owned fails its assertion and changes
\* nothing; with os unowned it stamps os with cowKey, binds mo to os and,
\* for a non-zero segment, maps the segment to mo.
C6_BindObject ==
  [][\A mo \in OneObjects, o \in ObjectStates :
       BindObject(1, mo, o) =>
         IF heap[o].copyOnWriteOwner # 0
         THEN /\ aborted'
              /\ heap' = heap /\ objects' = objects /\ segmentMap' = segmentMap
         ELSE /\ ~aborted'
              /\ heap'[o].copyOnWriteOwner = cowKey[1]
              /\ findObject(1, mo)' = o
              /\ segment(mo) # 0 => segmentMap'[1][segment(mo)] = mo]_vars

\* C6 witness: a bindObject failed its assertion.
C6_Witness == last = "bindObject" /\ aborted

(***************************************************************************)
(*                          The pointer resolvers                          *)
(*                                                                         *)
(* A pointer (KValue) has a segment and an offset expression.  Each is a   *)
(* ConstantExpr (segConst, offConst) or symbolic; segs and offs are the    *)
(* values the path constraints allow it.  The size of S may be any of      *)
(* SymbolicSizes.  An assignment is a triple <<segment, offset, size of    *)
(* S>>; the solver answers over all assignments.                           *)
(***************************************************************************)
AddressModulus == 8      \* uint64_t, scaled: addresses are 0..7
UnsignedModulus == 2     \* unsigned (line 83), scaled
MaxOffsetValues == 2     \* the most values the constraints allow a symbolic offset
MaxFailAt == 4           \* the solver call that may fail is one of the first MaxFailAt
MaxTimeoutAt == 2        \* the time check that may see the timeout exceeded
MaxResolutions == 2      \* the largest cap given to resolve

Offsets == 0..(AddressModulus - 1)
SymbolicSizes == {1, 2}

\* A ConstantExpr has one value; a symbolic segment has several, and a
\* symbolic offset is constrained to a range lo..hi of several values.
SegmentValues(const) ==
  IF const THEN {{s} : s \in Segments}
  ELSE {x \in SUBSET Segments : Cardinality(x) >= 2}

OffsetValues(const) ==
  IF const THEN {{f} : f \in Offsets}
  ELSE {lo..hi : lo \in Offsets, hi \in Offsets} \
         {x \in SUBSET Offsets : Cardinality(x) < 2 \/ Cardinality(x) > MaxOffsetValues}

Pointers ==
  UNION {[segConst : {sc}, offConst : {oc},
          segs : SegmentValues(sc), offs : OffsetValues(oc)] :
           sc \in BOOLEAN, oc \in BOOLEAN}

WellFormed(p) ==
  /\ p.segs \in SegmentValues(p.segConst)
  /\ p.offs \in OffsetValues(p.offConst)

Assignments(p) == p.segs \X p.offs \X SymbolicSizes

\* KValue::isConstant
isConstant(p) == p.segConst /\ p.offConst

Value(S) == CHOOSE x \in S : TRUE

(***************************************************************************)
(* The solver.  An oracle fixes what the solver and the clock do during    *)
(* one call: the values getValue samples (exSeg, exOff), the solver call   *)
(* that fails (failAt, 0 for none) and the time check that first sees the  *)
(* timeout exceeded (timeoutAt, 0 for none or for a zero timeout).         *)
(***************************************************************************)
Oracles(p) ==
  {[exSeg |-> s, exOff |-> f, failAt |-> k, timeoutAt |-> t] :
     s \in p.segs, f \in p.offs, k \in 0..MaxFailAt, t \in 0..MaxTimeoutAt}

OneEvent(o) == o.failAt = 0 \/ o.timeoutAt = 0

\* MemoryObject::getBoundsCheckPointer: the offset lies in
\* [address, address + size), or is the address of a zero-sized object.
getBoundsCheckPointer(mo, v) ==
  LET n == IF sizeIsConstant(mo) THEN size(mo) ELSE v[3] IN
    IF n = 0 THEN v[2] = address(mo)
    ELSE (v[2] - address(mo)) % AddressModulus < n

\* The expressions the resolvers hand to the solver, and their value under
\* the assignment v.
InBounds(mo) == <<"inBounds", mo>>     \* mo->getBoundsCheckPointer(pointer)
Uge(mo) == <<"uge", mo>>               \* UgeExpr(offset, mo->getBaseExpr())
Ult(mo) == <<"ult", mo>>               \* UltExpr(offset, mo->getBaseExpr())
SegmentIs(s) == <<"segment", s>>       \* EqExpr(segment, s)
Example(part) == <<"example", part>>   \* the expression getValue samples

Eval(expr, v) ==
  CASE expr[1] = "inBounds" -> getBoundsCheckPointer(expr[2], v)
    [] expr[1] = "uge" -> v[2] >= address(expr[2])
    [] expr[1] = "ult" -> v[2] < address(expr[2])
    [] expr[1] = "segment" -> v[1] = expr[2]

mayBeTrue(p, expr) == \E v \in Assignments(p) : Eval(expr, v)
mustBeTrue(p, expr) == \A v \in Assignments(p) : Eval(expr, v)

\* The state of one resolver call: q solver calls made, t time checks made,
\* what happened, the resolution list with the origin of each entry, and
\* the queries in the order they were made.
Start ==
  [q |-> 0, t |-> 0, failed |-> FALSE, timedOut |-> FALSE, capHit |-> FALSE,
   rl |-> <<>>, origin |-> <<>>, trace |-> <<>>]

\* One solver call: it fails when it is call number failAt.
Ask(e, o, query, expr) ==
  [e EXCEPT !.q = @ + 1, !.failed = @ \/ (e.q + 1 = o.failAt),
            !.trace = Append(@, <<query, expr>>)]

\* timeout && timeout < timer.delta()
TimeCheck(e, o) ==
  [e EXCEPT !.t = @ + 1, !.timedOut = @ \/ (e.t + 1 = o.timeoutAt)]

\* The list assigned the pair instead of being extended by it.
Push_Overwrite(e, pair, how) ==
  [e EXCEPT !.rl = <<pair>>, !.origin = <<how>>]

\* rl.push_back(pair); how records the path that appended it.
Push(e, pair, how) ==
  [e EXCEPT !.rl = Append(@, pair), !.origin = Append(@, how)]

(***************************************************************************)
(* The ordered map objects (keyed by address, MemoryObjectLT).             *)
(***************************************************************************)
Bound(a) == {mo \in MemoryObjects : objects[a][mo] # NoOS}

NoPair == <<NoMO, NoOS>>

\* The pair stored for mo in the address space forked from this one.
lookup_OtherSpace(a, mo) ==
  <<mo, objects[IF a = 1 /\ Live(2) THEN 2 ELSE a][mo]>>

\* objects.lookup(mo): the pair stored for mo.
lookup(a, mo) == <<mo, objects[a][mo]>>

\* objects.lookup_previous(&hack): the bound object of greatest address <= addr.
lookup_previous(a, addr) ==
  LET C == {mo \in Bound(a) : address(mo) <= addr} IN
    IF C = {} THEN NoMO
    ELSE CHOOSE mo \in C : \A x \in C : address(x) <= address(mo)

RECURSIVE Descending(_)
Descending(S) ==
  IF S = {} THEN <<>>
  ELSE LET m == CHOOSE x \in S : \A y \in S : address(y) <= address(x)
       IN <<m>> \o Descending(S \ {m})

RECURSIVE Ascending(_)
Ascending(S) ==
  IF S = {} THEN <<>>
  ELSE LET m == CHOOSE x \in S : \A y \in S : address(x) <= address(y)
       IN <<m>> \o Ascending(S \ {m})

\* What --oi visits from upper_bound(&hack) down to begin().
BackwardFrom(a, example) == Descending({mo \in Bound(a) : address(mo) <= example})

\* What ++oi visits from upper_bound(&hack) up to end().
ForwardFrom(a, example) == Ascending({mo \in Bound(a) : address(mo) > example})

(***************************************************************************)
(* AddressSpace::resolveConstantAddress on the pointer (seg, addr).        *)
(***************************************************************************)
\* resolveConstantAddress going on to the search by address when the segment
\* is not in segmentMap.
resolveConstantAddress_UnboundSegmentByAddress(a, seg, addr) ==
  IF seg # 0 /\ segmentMap[a][seg] # NoMO
  THEN [found |-> TRUE, result |-> lookup(a, segmentMap[a][seg])]
  ELSE LET mo == lookup_previous(a, addr) IN
         IF mo # NoMO /\ sizeIsConstant(mo)
            /\ LET sz == size(mo) % UnsignedModulus IN
                 \/ (sz = 0 /\ addr = address(mo))
                 \/ (addr - address(mo)) % AddressModulus < sz
         THEN [found |-> TRUE, result |-> lookup(a, mo)]
         ELSE [found |-> FALSE, result |-> NoPair]

\* resolveConstantAddress without the range test of lines 86-87.
resolveConstantAddress_NoRangeTest(a, seg, addr) ==
  IF seg # 0
  THEN IF segmentMap[a][seg] # NoMO
       THEN [found |-> TRUE, result |-> lookup(a, segmentMap[a][seg])]
       ELSE [found |-> FALSE, result |-> NoPair]
  ELSE LET mo == lookup_previous(a, addr) IN
         IF mo # NoMO /\ sizeIsConstant(mo)
         THEN [found |-> TRUE, result |-> lookup(a, mo)]
         ELSE [found |-> FALSE, result |-> NoPair]

resolveConstantAddress(a, seg, addr) ==
  IF seg # 0
  THEN IF segmentMap[a][seg] # NoMO
       THEN [found |-> TRUE, result |-> lookup(a, segmentMap[a][seg])]
       ELSE [found |-> FALSE, result |-> NoPair]
  ELSE LET mo == lookup_previous(a, addr) IN
         IF mo # NoMO /\ sizeIsConstant(mo)
            /\ LET sz == size(mo) % UnsignedModulus IN
                 \/ (sz = 0 /\ addr = address(mo))
                 \/ (addr - address(mo)) % AddressModulus < sz
         THEN [found |-> TRUE, result |-> lookup(a, mo)]
         ELSE [found |-> FALSE, result |-> NoPair]

(***************************************************************************)
(* AddressSpace::resolveOne.  The result: ret, the value returned;         *)
(* successSet, whether success was assigned, and success; result; seg, the *)
(* segment the call worked with (-1 when it got none); e, the call state.  *)
(***************************************************************************)
OneResult(ret, set, success, result, seg, e) ==
  [ret |-> ret, successSet |-> set, success |-> success, result |-> result,
   seg |-> seg, e |-> e]

\* The walks below take the call state as a value: binding a name through a
\* singleton set ({F(x) : x \in {expr}}) evaluates expr once.

\* The backward walk, lines 150-173, over the objects in visits.  returned:
\* the function returned from inside the walk (ret, mo say how).
RECURSIVE resolveOneBackward(_, _, _, _, _)
resolveOneBackward(a, p, o, visits, state) ==
  Value({
    IF list = <<>> THEN [returned |-> FALSE, ret |-> TRUE, mo |-> NoMO, e |-> e]
    ELSE
      LET mo == Head(list)
          e1 == Ask(e, o, "mayBeTrue", InBounds(mo))
          e2 == Ask(e1, o, "mustBeTrue", Uge(mo))
      IN
        IF e1.failed THEN [returned |-> TRUE, ret |-> FALSE, mo |-> NoMO, e |-> e1]
        ELSE IF mayBeTrue(p, InBounds(mo))
        THEN [returned |-> TRUE, ret |-> TRUE, mo |-> mo, e |-> e1]
        ELSE IF e2.failed THEN [returned |-> TRUE, ret |-> FALSE, mo |-> NoMO, e |-> e2]
        ELSE IF mustBeTrue(p, Uge(mo))
        THEN [returned |-> FALSE, ret |-> TRUE, mo |-> NoMO, e |-> e2]
        ELSE resolveOneBackward(a, p, o, Tail(list), e2)
    : list \in {visits}, e \in {state}})

\* The forward walk stopping as soon as the offset may be below the base.
RECURSIVE resolveOneForward_MayCutOff(_, _, _, _, _)
resolveOneForward_MayCutOff(a, p, o, visits, state) ==
  Value({
    IF list = <<>> THEN [returned |-> FALSE, ret |-> TRUE, mo |-> NoMO, e |-> e]
    ELSE
      LET mo == Head(list)
          e1 == Ask(e, o, "mustBeTrue", Ult(mo))
          e2 == Ask(e1, o, "mayBeTrue", InBounds(mo))
      IN
        IF e1.failed THEN [returned |-> TRUE, ret |-> FALSE, mo |-> NoMO, e |-> e1]
        ELSE IF mayBeTrue(p, Ult(mo))
        THEN [returned |-> FALSE, ret |-> TRUE, mo |-> NoMO, e |-> e1]
        ELSE IF e2.failed THEN [returned |-> TRUE, ret |-> FALSE, mo |-> NoMO, e |-> e2]
        ELSE IF mayBeTrue(p, InBounds(mo))
        THEN [returned |-> TRUE, ret |-> TRUE, mo |-> mo, e |-> e2]
        ELSE resolveOneForward_MayCutOff(a, p, o, Tail(list), e2)
    : list \in {visits}, e \in {state}})

\* The forward walk, lines 176-200.
RECURSIVE resolveOneForward(_, _, _, _, _)
resolveOneForward(a, p, o, visits, state) ==
  Value({
    IF list = <<>> THEN [returned |-> FALSE, ret |-> TRUE, mo |-> NoMO, e |-> e]
    ELSE
      LET mo == Head(list)
          e1 == Ask(e, o, "mustBeTrue", Ult(mo))
          e2 == Ask(e1, o, "mayBeTrue", InBounds(mo))
      IN
        IF e1.failed THEN [returned |-> TRUE, ret |-> FALSE, mo |-> NoMO, e |-> e1]
        ELSE IF mustBeTrue(p, Ult(mo))
        THEN [returned |-> FALSE, ret |-> TRUE, mo |-> NoMO, e |-> e1]
        ELSE IF e2.failed THEN [returned |-> TRUE, ret |-> FALSE, mo |-> NoMO, e |-> e2]
        ELSE IF mayBeTrue(p, InBounds(mo))
        THEN [returned |-> TRUE, ret |-> TRUE, mo |-> mo, e |-> e2]
        ELSE resolveOneForward(a, p, o, Tail(list), e2)
    : list \in {visits}, e \in {state}})

\* resolveOneFlat without the cheap search of lines 128-141.
resolveOneFlat_NoCheapSearch(a, p, o, state) ==
  LET e1 == Ask(state, o, "getValue", Example("offset"))
      example == o.exOff
  IN
    IF e1.failed THEN OneResult(FALSE, FALSE, FALSE, NoPair, 0, e1)
    ELSE Value({
      IF back.returned
      THEN IF back.ret
           THEN OneResult(TRUE, TRUE, TRUE, lookup(a, back.mo), 0, back.e)
           ELSE OneResult(FALSE, FALSE, FALSE, NoPair, 0, back.e)
      ELSE Value({
        IF forw.returned
        THEN IF forw.ret
             THEN OneResult(TRUE, TRUE, TRUE, lookup(a, forw.mo), 0, forw.e)
             ELSE OneResult(FALSE, FALSE, FALSE, NoPair, 0, forw.e)
        ELSE OneResult(TRUE, TRUE, FALSE, NoPair, 0, forw.e)
        : forw \in {resolveOneForward(a, p, o, ForwardFrom(a, example), back.e)}})
      : back \in {resolveOneBackward(a, p, o, BackwardFrom(a, example), e1)}})

\* Lines 119-204: the segment is 0; state is the call state so far.
resolveOneFlat(a, p, o, state) ==
  LET e1 == Ask(state, o, "getValue", Example("offset"))
      example == o.exOff
      mo == lookup_previous(a, example)
  IN
    IF e1.failed THEN OneResult(FALSE, FALSE, FALSE, NoPair, 0, e1)
    ELSE IF mo # NoMO /\ sizeIsConstant(mo)
            /\ (example - address(mo)) % AddressModulus < size(mo)
    THEN OneResult(TRUE, TRUE, TRUE, lookup(a, mo), 0, e1)
    ELSE Value({
      IF back.returned
      THEN IF back.ret
           THEN OneResult(TRUE, TRUE, TRUE, lookup(a, back.mo), 0, back.e)
           ELSE OneResult(FALSE, FALSE, FALSE, NoPair, 0, back.e)
      ELSE Value({
        IF forw.returned
        THEN IF forw.ret
             THEN OneResult(TRUE, TRUE, TRUE, lookup(a, forw.mo), 0, forw.e)
             ELSE OneResult(FALSE, FALSE, FALSE, NoPair, 0, forw.e)
        ELSE OneResult(TRUE, TRUE, FALSE, NoPair, 0, forw.e)
        : forw \in {resolveOneForward(a, p, o, ForwardFrom(a, example), back.e)}})
      : back \in {resolveOneBackward(a, p, o, BackwardFrom(a, example), e1)}})

resolveOne(a, p, o) ==
  IF isConstant(p)
  THEN LET r == resolveConstantAddress(a, Value(p.segs), Value(p.offs))
       IN OneResult(TRUE, TRUE, r.found, r.result, Value(p.segs), Start)
  ELSE
    LET e1 == IF p.segConst THEN Start
              ELSE Ask(Start, o, "getValue", Example("segment"))
        seg == IF p.segConst THEN Value(p.segs) ELSE o.exSeg
    IN
      IF e1.failed THEN OneResult(FALSE, FALSE, FALSE, NoPair, -1, e1)
      ELSE IF seg # 0
      THEN LET r == resolveConstantAddress(a, seg, o.exOff)
           IN OneResult(r.found, FALSE, FALSE, r.result, seg, e1)
      ELSE resolveOneFlat(a, p, o, e1)

(***************************************************************************)
(* AddressSpace::checkPointerInObject: code is the value returned.         *)
(***************************************************************************)
\* checkPointerInObject going on to the next object (2) when the mayBeTrue
\* call fails, instead of returning 1.
checkPointerInObject_FailureContinues(a, p, o, mo, state, maxResolutions) ==
  Value({
    LET e1 == Ask(e, o, "mayBeTrue", InBounds(mo))
        e2 == Push(e1, lookup(a, mo), "flat")
        e3 == Ask(e2, o, "mustBeTrue", InBounds(mo))
    IN
      IF e1.failed THEN [code |-> 2, e |-> e1]
      ELSE IF mayBeTrue(p, InBounds(mo))
      THEN IF Len(e2.rl) = 1
           THEN IF e3.failed THEN [code |-> 1, e |-> e3]
                ELSE IF mustBeTrue(p, InBounds(mo))
                THEN [code |-> 0, e |-> e3]
                ELSE [code |-> 2, e |-> e3]
           ELSE IF Len(e2.rl) = maxResolutions
           THEN [code |-> 1, e |-> [e2 EXCEPT !.capHit = TRUE]]
           ELSE [code |-> 2, e |-> e2]
      ELSE [code |-> 2, e |-> e1]
    : e \in {state}})

\* checkPointerInObject appending the object whatever mayBeTrue answers.
checkPointerInObject_NoMayTest(a, p, o, mo, state, maxResolutions) ==
  Value({
    LET e1 == Ask(e, o, "mayBeTrue", InBounds(mo))
        e2 == Push(e1, lookup(a, mo), "flat")
        e3 == Ask(e2, o, "mustBeTrue", InBounds(mo))
    IN
      IF e1.failed THEN [code |-> 1, e |-> e1]
      ELSE IF Len(e2.rl) = 1
           THEN IF e3.failed THEN [code |-> 1, e |-> e3]
                ELSE IF mustBeTrue(p, InBounds(mo))
                THEN [code |-> 0, e |-> e3]
                ELSE [code |-> 2, e |-> e3]
           ELSE IF Len(e2.rl) = maxResolutions
           THEN [code |-> 1, e |-> [e2 EXCEPT !.capHit = TRUE]]
           ELSE [code |-> 2, e |-> e2]
    : e \in {state}})

\* checkPointerInObject taking the first result for the only one (0) without
\* asking mustBeTrue.
checkPointerInObject_FirstIsUnique(a, p, o, mo, state, maxResolutions) ==
  Value({
    LET e1 == Ask(e, o, "mayBeTrue", InBounds(mo))
        e2 == Push(e1, lookup(a, mo), "flat")
    IN
      IF e1.failed THEN [code |-> 1, e |-> e1]
      ELSE IF mayBeTrue(p, InBounds(mo))
      THEN IF Len(e2.rl) = 1
           THEN [code |-> 0, e |-> e2]
           ELSE IF Len(e2.rl) = maxResolutions
           THEN [code |-> 1, e |-> [e2 EXCEPT !.capHit = TRUE]]
           ELSE [code |-> 2, e |-> e2]
      ELSE [code |-> 2, e |-> e1]
    : e \in {state}})

checkPointerInObject(a, p, o, mo, state, maxResolutions) ==
  Value({
    LET e1 == Ask(e, o, "mayBeTrue", InBounds(mo))
        e2 == Push(e1, lookup(a, mo), "flat")
        e3 == Ask(e2, o, "mustBeTrue", InBounds(mo))
    IN
      IF e1.failed THEN [code |-> 1, e |-> e1]
      ELSE IF mayBeTrue(p, InBounds(mo))
      THEN IF Len(e2.rl) = 1
           THEN IF e3.failed THEN [code |-> 1, e |-> e3]
                ELSE IF mustBeTrue(p, InBounds(mo))
                THEN [code |-> 0, e |-> e3]
                ELSE [code |-> 2, e |-> e3]
           ELSE IF Len(e2.rl) = maxResolutions
           THEN [code |-> 1, e |-> [e2 EXCEPT !.capHit = TRUE]]
           ELSE [code |-> 2, e |-> e2]
      ELSE [code |-> 2, e |-> e1]
    : e \in {state}})

(***************************************************************************)
(* AddressSpace::resolveConstantSegment.  The walks return returned =      *)
(* TRUE when the function returned from inside the loop with value ret.    *)
(***************************************************************************)
\* The backward walk going on to the next lower object whatever
\* mustBeTrue(offset >= base) answers.
RECURSIVE segmentBackward_NoCutOff(_, _, _, _, _, _)
segmentBackward_NoCutOff(a, p, o, visits, state, maxResolutions) ==
  Value({
    IF list = <<>> THEN [returned |-> FALSE, ret |-> FALSE, e |-> e]
    ELSE
      LET mo == Head(list)
          e1 == TimeCheck(e, o)
      IN
        IF e1.timedOut THEN [returned |-> TRUE, ret |-> TRUE, e |-> e1]
        ELSE Value({
          LET e2 == Ask(c.e, o, "mustBeTrue", Uge(mo)) IN
            IF c.code # 2 THEN [returned |-> TRUE, ret |-> (c.code # 0), e |-> c.e]
            ELSE IF e2.failed THEN [returned |-> TRUE, ret |-> TRUE, e |-> e2]
            ELSE segmentBackward_NoCutOff(a, p, o, Tail(list), e2, maxResolutions)
          : c \in {checkPointerInObject(a, p, o, mo, e1, maxResolutions)}})
    : list \in {visits}, e \in {state}})

\* Lines 333-355.
RECURSIVE segmentBackward(_, _, _, _, _, _)
segmentBackward(a, p, o, visits, state, maxResolutions) ==
  Value({
    IF list = <<>> THEN [returned |-> FALSE, ret |-> FALSE, e |-> e]
    ELSE
      LET mo == Head(list)
          e1 == TimeCheck(e, o)
      IN
        IF e1.timedOut THEN [returned |-> TRUE, ret |-> TRUE, e |-> e1]
        ELSE Value({
          LET e2 == Ask(c.e, o, "mustBeTrue", Uge(mo)) IN
            IF c.code # 2 THEN [returned |-> TRUE, ret |-> (c.code # 0), e |-> c.e]
            ELSE IF e2.failed THEN [returned |-> TRUE, ret |-> TRUE, e |-> e2]
            ELSE IF mustBeTrue(p, Uge(mo))
            THEN [returned |-> FALSE, ret |-> FALSE, e |-> e2]
            ELSE segmentBackward(a, p, o, Tail(list), e2, maxResolutions)
          : c \in {checkPointerInObject(a, p, o, mo, e1, maxResolutions)}})
    : list \in {visits}, e \in {state}})

\* Lines 358-377.
RECURSIVE segmentForward(_, _, _, _, _, _)
segmentForward(a, p, o, visits, state, maxResolutions) ==
  Value({
    IF list = <<>> THEN [returned |-> FALSE, ret |-> FALSE, e |-> e]
    ELSE
      LET mo == Head(list)
          e1 == TimeCheck(e, o)
          e2 == Ask(e1, o, "mustBeTrue", Ult(mo))
      IN
        IF e1.timedOut THEN [returned |-> TRUE, ret |-> TRUE, e |-> e1]
        ELSE IF e2.failed THEN [returned |-> TRUE, ret |-> TRUE, e |-> e2]
        ELSE IF mustBeTrue(p, Ult(mo))
        THEN [returned |-> FALSE, ret |-> FALSE, e |-> e2]
        ELSE Value({
          IF c.code # 2 THEN [returned |-> TRUE, ret |-> (c.code # 0), e |-> c.e]
          ELSE segmentForward(a, p, o, Tail(list), c.e, maxResolutions)
          : c \in {checkPointerInObject(a, p, o, mo, e2, maxResolutions)}})
    : list \in {visits}, e \in {state}})

\* resolveConstantSegment searching forwards before it searches backwards.
resolveConstantSegment_ForwardFirst(a, p, seg, o, state, maxResolutions) ==
  IF seg # 0
  THEN LET r == resolveConstantAddress(a, seg, o.exOff) IN
         [ret |-> FALSE,
          e |-> IF r.found THEN Push(state, r.result, "segment") ELSE state]
  ELSE
    LET e1 == Ask(state, o, "getValue", Example("offset"))
        example == o.exOff
    IN
      IF e1.failed THEN [ret |-> TRUE, e |-> e1]
      ELSE Value({
        IF forw.returned THEN [ret |-> forw.ret, e |-> forw.e]
        ELSE Value({
          [ret |-> back.ret, e |-> back.e]
          : back \in {segmentBackward(a, p, o, BackwardFrom(a, example),
                                      forw.e, maxResolutions)}})
        : forw \in {segmentForward(a, p, o, ForwardFrom(a, example),
                                    e1, maxResolutions)}})

\* seg is the constant segment of the pointer; p carries the offset.
resolveConstantSegment(a, p, seg, o, state, maxResolutions) ==
  IF seg # 0
  THEN LET r == resolveConstantAddress(a, seg, o.exOff) IN
         [ret |-> FALSE,
          e |-> IF r.found THEN Push(state, r.result, "segment") ELSE state]
  ELSE
    LET e1 == Ask(state, o, "getValue", Example("offset"))
        example == o.exOff
    IN
      IF e1.failed THEN [ret |-> TRUE, e |-> e1]
      ELSE Value({
        IF back.returned THEN [ret |-> back.ret, e |-> back.e]
        ELSE Value({
          [ret |-> forw.ret, e |-> forw.e]
          : forw \in {segmentForward(a, p, o, ForwardFrom(a, example),
                                     back.e, maxResolutions)}})
        : back \in {segmentBackward(a, p, o, BackwardFrom(a, example),
                                    e1, maxResolutions)}})

(***************************************************************************)
(* AddressSpace::resolve.  ret = TRUE says the enumeration is incomplete.  *)
(***************************************************************************)
\* The loop over segmentMap appending an object only if the pointer may
\* also be in its bounds.
RECURSIVE resolveSegments_BoundsChecked(_, _, _, _, _)
resolveSegments_BoundsChecked(a, p, o, keys, state) ==
  Value({
    IF list = <<>> THEN [ret |-> FALSE, e |-> e]
    ELSE
      LET s == Head(list)
          e1 == TimeCheck(e, o)
          e2 == Ask(e1, o, "mayBeTrue", SegmentIs(s))
      IN
        IF e1.timedOut THEN [ret |-> TRUE, e |-> e1]
        ELSE IF e2.failed THEN [ret |-> TRUE, e |-> e2]
        ELSE IF mayBeTrue(p, SegmentIs(s)) /\ mayBeTrue(p, InBounds(segmentMap[a][s]))
        THEN resolveSegments_BoundsChecked(a, p, o, Tail(list),
                             Push(e2, lookup(a, segmentMap[a][s]), "segmentMap"))
        ELSE resolveSegments_BoundsChecked(a, p, o, Tail(list), e2)
    : list \in {keys}, e \in {state}})

\* The loop over segmentMap without the time check of lines 268-269.
RECURSIVE resolveSegments_NoTimeCheck(_, _, _, _, _)
resolveSegments_NoTimeCheck(a, p, o, keys, state) ==
  Value({
    IF list = <<>> THEN [ret |-> FALSE, e |-> e]
    ELSE
      LET s == Head(list)
          e2 == Ask(e, o, "mayBeTrue", SegmentIs(s))
      IN
        IF e2.failed THEN [ret |-> TRUE, e |-> e2]
        ELSE IF mayBeTrue(p, SegmentIs(s))
        THEN resolveSegments_NoTimeCheck(a, p, o, Tail(list),
                             Push(e2, lookup(a, segmentMap[a][s]), "segmentMap"))
        ELSE resolveSegments_NoTimeCheck(a, p, o, Tail(list), e2)
    : list \in {keys}, e \in {state}})

\* The loop over segmentMap, lines 267-279, over the keys in keys.
RECURSIVE resolveSegments(_, _, _, _, _)
resolveSegments(a, p, o, keys, state) ==
  Value({
    IF list = <<>> THEN [ret |-> FALSE, e |-> e]
    ELSE
      LET s == Head(list)
          e1 == TimeCheck(e, o)
          e2 == Ask(e1, o, "mayBeTrue", SegmentIs(s))
      IN
        IF e1.timedOut THEN [ret |-> TRUE, e |-> e1]
        ELSE IF e2.failed THEN [ret |-> TRUE, e |-> e2]
        ELSE IF mayBeTrue(p, SegmentIs(s))
        THEN resolveSegments(a, p, o, Tail(list),
                             Push(e2, lookup(a, segmentMap[a][s]), "segmentMap"))
        ELSE resolveSegments(a, p, o, Tail(list), e2)
    : list \in {keys}, e \in {state}})

RECURSIVE AscendingKeys(_)
AscendingKeys(S) ==
  IF S = {} THEN <<>>
  ELSE LET m == CHOOSE x \in S : \A y \in S : x <= y
       IN <<m>> \o AscendingKeys(S \ {m})

\* The keys of segmentMap in iteration order.
SegmentKeys(a) == AscendingKeys({s \in Segments : segmentMap[a][s] # NoMO})

resolve(a, p, o, maxResolutions) ==
  IF p.segConst
  THEN resolveConstantSegment(a, p, Value(p.segs), o, Start, maxResolutions)
  ELSE
    LET e1 == Ask(Start, o, "mayBeTrue", SegmentIs(0)) IN
      IF e1.failed THEN [ret |-> TRUE, e |-> e1]
      ELSE IF mayBeTrue(p, SegmentIs(0))
      THEN Value({
        IF zero.ret THEN [ret |-> TRUE, e |-> zero.e]
        ELSE resolveSegments(a, p, o, SegmentKeys(a), zero.e)
        : zero \in {resolveConstantSegment(a, p, 0, o, e1, maxResolutions)}})
      ELSE resolveSegments(a, p, o, SegmentKeys(a), e1)

(***************************************************************************)
(* The resolver calls.  The address space is bound in InitResolve and is   *)
(* not changed; call holds the outcome of the call until the caller has    *)
(* taken it (Return).                                                      *)
(***************************************************************************)
ResolveCells == 1..Cardinality(MemoryObjects)

cellOf(mo) == CASE mo = "A" -> 1 [] mo = "B" -> 2 [] mo = "Z" -> 3 [] mo = "S" -> 4

InitResolve ==
  \E B \in SUBSET MemoryObjects :
    /\ cowKey = [a \in AddressSpaces |-> IF a = 1 THEN 1 ELSE 0]
    /\ objects = [a \in AddressSpaces |->
                    [mo \in MemoryObjects |->
                       IF a = 1 /\ mo \in B THEN cellOf(mo) ELSE NoOS]]
    /\ segmentMap = [a \in AddressSpaces |->
                       [s \in Segments |->
                          IF a = 1 /\ \E mo \in B : segment(mo) = s /\ s # 0
                          THEN CHOOSE mo \in B : segment(mo) = s
                          ELSE NoMO]]
    /\ heap = [c \in ResolveCells |->
                 IF \E mo \in B : cellOf(mo) = c
                 THEN [allocated |-> TRUE, readOnly |-> FALSE,
                       copyOnWriteOwner |-> 1, concreteStore |-> 0]
                 ELSE FreeCell]
    /\ nextKey = 1
    /\ aborted = FALSE
    /\ last = "none"
    /\ call = NoCall

\* resolveOne(state, solver, pointer, result, success).  When the call does
\* not assign success, the caller's variable keeps the value it had, which
\* is any value (callers declare it without initialising it).
ResolveOne(a, p, o) ==
  /\ call = NoCall /\ Live(a) /\ WellFormed(p) /\ o.timeoutAt = 0
  /\ LET r == resolveOne(a, p, o) IN
       \E s0 \in (IF r.successSet THEN {r.success} ELSE BOOLEAN) :
         call' = [op |-> "resolveOne", as |-> a, p |-> p, ret |-> r.ret,
                  success |-> s0, successSet |-> r.successSet,
                  result |-> r.result, seg |-> r.seg,
                  failed |-> r.e.failed, q |-> r.e.q, trace |-> r.e.trace,
                  o |-> o]
  /\ UNCHANGED <<cowKey, objects, segmentMap, heap, nextKey, aborted, last>>

\* resolve(state, solver, pointer, rl, maxResolutions, timeout) with rl empty.
Resolve(a, p, o, maxResolutions) ==
  /\ call = NoCall /\ Live(a) /\ WellFormed(p) /\ OneEvent(o)
  /\ LET r == resolve(a, p, o, maxResolutions) IN
       call' = [op |-> "resolve", as |-> a, p |-> p, ret |-> r.ret,
                maxResolutions |-> maxResolutions,
                rl |-> r.e.rl, origin |-> r.e.origin,
                failed |-> r.e.failed, timedOut |-> r.e.timedOut,
                capHit |-> r.e.capHit, q |-> r.e.q, t |-> r.e.t,
                trace |-> r.e.trace, o |-> o]
  /\ UNCHANGED <<cowKey, objects, segmentMap, heap, nextKey, aborted, last>>

\* The caller has taken the outcome.
Return ==
  /\ call # NoCall
  /\ call' = NoCall
  /\ UNCHANGED <<cowKey, objects, segmentMap, heap, nextKey, aborted, last>>

NextResolveOne ==
  \/ call = NoCall /\ \E p \in Pointers : \E o \in Oracles(p) : ResolveOne(1, p, o)
  \/ Return

SpecResolveOne == InitResolve /\ [][NextResolveOne]_vars

NextResolve ==
  \/ call = NoCall /\ \E p \in Pointers : \E o \in Oracles(p), k \in 0..MaxResolutions :
                        Resolve(1, p, o, k)
  \/ Return

SpecResolve == InitResolve /\ [][NextResolve]_vars

\* Both resolvers on the same address space.
NextResolvers ==
  \/ call = NoCall /\ \E p \in Pointers : \E o \in Oracles(p) : ResolveOne(1, p, o)
  \/ call = NoCall /\ \E p \in Pointers : \E o \in Oracles(p), k \in 0..MaxResolutions :
                        Resolve(1, p, o, k)
  \/ Return

SpecResolvers == InitResolve /\ [][NextResolvers]_vars

(***************************************************************************)
(* C7: resolveOne returns false if and only if some solver call made       *)
(* during the call failed; in every other case, a pointer that designates  *)
(* no object or an unbound segment included, it returns true.              *)
(***************************************************************************)
C7_FalseIffSolverFailed ==
  call.op = "resolveOne" => ((call.ret = FALSE) <=> call.failed)

Commits ==
  /\ call.op = "resolveOne" /\ call.ret
  /\ call.successSet /\ call.success /\ call.result # NoPair

C9_Original == Commits => mayBeTrue(call.p, InBounds(call.result[1]))

(***************************************************************************)
(* C9, amended: if resolveOne commits to mo on the flat path (the segment  *)
(* is the constant 0 or getValue samples it as 0), then                    *)
(* mayBeTrue(bounds_check(mo, p)) holds.                                   *)
(***************************************************************************)
C9_FlatCommitInBounds ==
  (Commits /\ call.seg = 0) => mayBeTrue(call.p, InBounds(call.result[1]))

\* A commit made in the walks: the example lay in no object of constant size.
C9_Witness ==
  /\ Commits /\ call.seg = 0 /\ ~call.p.offConst
  /\ call.q >= 2 /\ ~call.failed

(***************************************************************************)
(* C10, as claimed: every object that resolve appends to the resolution    *)
(* list satisfies mayBeTrue(bounds_check(mo, p)), on the flat walk, on the *)
(* concrete non-zero segment path and on the symbolic-segment loop alike.  *)
(***************************************************************************)
C10_Original ==
  call.op = "resolve" =>
    \A i \in 1..Len(call.rl) : mayBeTrue(call.p, InBounds(call.rl[i][1]))

(***************************************************************************)
(* C10, amended: every object that resolve appends on the flat walk        *)
(* satisfies mayBeTrue(bounds_check(mo, p)).                               *)
(***************************************************************************)
C10_FlatWalkInBounds ==
  call.op = "resolve" =>
    \A i \in 1..Len(call.rl) :
      call.origin[i] = "flat" => mayBeTrue(call.p, InBounds(call.rl[i][1]))

\* The flat walk appended two objects and the segment loop one more.
C10_Witness ==
  /\ call.op = "resolve" /\ ~call.ret
  /\ Len(call.rl) >= 3
  /\ call.origin[1] = "flat" /\ call.origin[2] = "flat"
  /\ call.origin[Len(call.rl)] = "segmentMap"

(***************************************************************************)
(* C11, as claimed: if resolve returns false (complete), then for every    *)
(* bound object mo that is not in the returned list,                       *)
(* mustBeTrue(not bounds_check(mo, p)) holds.                              *)
(***************************************************************************)
Listed(mo) == \E i \in 1..Len(call.rl) : call.rl[i][1] = mo

\* mustBeTrue(not bounds_check(mo, p)) for every bound object not listed.
NoneMissed ==
  \A mo \in Bound(call.as) : ~Listed(mo) => ~mayBeTrue(call.p, InBounds(mo))

C11_Original == (call.op = "resolve" /\ ~call.ret) => NoneMissed

(***************************************************************************)
(* C11, amended: if resolve returns false (complete) for a pointer whose   *)
(* segment may be 0 (the constant 0, or symbolic with                      *)
(* mayBeTrue(segment == 0)), then for every bound object mo that is not in *)
(* the returned list, mustBeTrue(not bounds_check(mo, p)) holds.           *)
(***************************************************************************)
C11_FlatNoneMissed ==
  (call.op = "resolve" /\ ~call.ret /\ mayBeTrue(call.p, SegmentIs(0)))
    => NoneMissed

\* A complete enumeration that a cut-off ended, with a bound object left out.
C11_Witness ==
  /\ call.op = "resolve" /\ ~call.ret /\ call.p.segConst /\ ~call.p.offConst
  /\ mayBeTrue(call.p, SegmentIs(0))
  /\ Len(call.rl) = 2
  /\ \E mo \in Bound(call.as) : ~Listed(mo)
  /\ call.trace[Len(call.trace)][2][1] \in {"uge", "ult"}

(***************************************************************************)
(* C12: for every cap k = maxResolutions > 0 and every flat pointer with   *)
(* symbolic offset that may lie in more than k bound objects, none of them *)
(* containing it for certain, resolve with a non-failing solver and no     *)
(* timeout returns exactly k objects and reports incomplete.               *)
(***************************************************************************)
\* The bound objects the pointer may lie in.
Candidates == {mo \in Bound(call.as) : mayBeTrue(call.p, InBounds(mo))}

C12_CapReturnsExactlyK ==
  ( /\ call.op = "resolve" /\ call.maxResolutions > 0
    /\ call.p.segConst /\ call.p.segs = {0} /\ ~call.p.offConst
    /\ ~call.failed /\ ~call.timedOut
    /\ Cardinality(Candidates) > call.maxResolutions
    /\ \A mo \in Candidates : ~mustBeTrue(call.p, InBounds(mo)) )
  => (Len(call.rl) = call.maxResolutions /\ call.ret)

(***************************************************************************)
(* C13: when maxResolutions = k > 0 and resolve is called with an empty    *)
(* resolution list, the list holds at most k objects when resolve returns, *)
(* for every kind of pointer.                                              *)
(***************************************************************************)
C13_ListWithinCap ==
  (call.op = "resolve" /\ call.maxResolutions > 0)
    => Len(call.rl) <= call.maxResolutions

(***************************************************************************)
(* C14: for a fully concrete pointer with segment 0 and address a,         *)
(* resolveConstantAddress returns the floor object mo (greatest bound      *)
(* address <= a) exactly when mo.size is concrete and either               *)
(* (mo.size == 0 and a == mo.address) or (a - mo.address < mo.size), and   *)
(* returns none otherwise.                                                 *)
(***************************************************************************)
\* resolveOne on a constant pointer hands out what resolveConstantAddress
\* returned: success is its return value, result its result.
ConstantCall == call.op = "resolveOne" /\ isConstant(call.p)

C14_FlatConstantMatch ==
  (ConstantCall /\ call.p.segs = {0}) =>
    LET a == Value(call.p.offs)
        mo == lookup_previous(call.as, a)
        matches ==
          /\ mo # NoMO /\ sizeIsConstant(mo)
          /\ \/ (size(mo) = 0 /\ a = address(mo))
             \/ (a - address(mo)) % AddressModulus < size(mo)
    IN IF matches
       THEN call.success /\ call.result = lookup(call.as, mo)
       ELSE ~call.success /\ call.result = NoPair

(***************************************************************************)
(* C15: for a concrete pointer with non-zero segment s,                    *)
(* resolveConstantAddress returns the object bound to s in segmentMap with *)
(* its currently bound state, whatever the offset is, and returns none     *)
(* when s is not in segmentMap; the objects map is never searched by       *)
(* address for such a pointer.                                             *)
(***************************************************************************)
C15_SegmentConstantMatch ==
  (ConstantCall /\ call.p.segs # {0}) =>
    LET mo == segmentMap[call.as][Value(call.p.segs)] IN
      IF mo # NoMO
      THEN call.success /\ call.result = <<mo, objects[call.as][mo]>>
      ELSE ~call.success /\ call.result = NoPair

\* Both cases: a bound segment with an offset outside its object, and an
\* unbound segment with an offset inside a bound object.
C15_Witness ==
  /\ ConstantCall /\ call.p.segs # {0}
  /\ \/ call.success /\ ~mayBeTrue(call.p, InBounds(call.result[1]))
     \/ /\ ~call.success
        /\ \E mo \in Bound(call.as) : mayBeTrue(call.p, InBounds(mo))

(***************************************************************************)
(* C16, as claimed: for a pointer with symbolic segment, with a            *)
(* non-failing solver and no timeout, resolve appends, in ascending        *)
(* segment-id order and with no bounds check, exactly those segmentMap     *)
(* entries (s, mo) for which mayBeTrue(pointer.segment == s) holds, after  *)
(* the results of the flat segment-0 enumeration (run only if              *)
(* mayBeTrue(segment == 0)), and the call is complete.                     *)
(***************************************************************************)
MayBeSegment(s) == mayBeTrue(call.p, SegmentIs(s))

\* The entries the flat walk appended.
FlatCount == Cardinality({i \in 1..Len(call.rl) : call.origin[i] = "flat"})

\* The segmentMap entries the pointer's segment may equal, in key order.
ExpectedSegments ==
  LET sel == SelectSeq(SegmentKeys(call.as), MayBeSegment)
  IN [i \in 1..Len(sel) |-> lookup(call.as, segmentMap[call.as][sel[i]])]

SegmentsAfterFlat ==
  /\ \A i \in 1..FlatCount : call.origin[i] = "flat"
  /\ SubSeq(call.rl, FlatCount + 1, Len(call.rl)) = ExpectedSegments
  /\ ~MayBeSegment(0) =>
       /\ FlatCount = 0
       /\ \A i \in 1..Len(call.trace) : call.trace[i][1] # "getValue"
  /\ ~call.ret

SymbolicSegmentCall ==
  call.op = "resolve" /\ ~call.p.segConst /\ ~call.failed /\ ~call.timedOut

C16_Original == SymbolicSegmentCall => SegmentsAfterFlat

(***************************************************************************)
(* C16, amended: the same, provided the flat segment-0 enumeration is not  *)
(* cut short by the resolution cap (then resolve returns true before the   *)
(* segmentMap loop).                                                       *)
(***************************************************************************)
C16_SegmentsAfterFlat ==
  (SymbolicSegmentCall /\ ~call.capHit) => SegmentsAfterFlat

\* Flat results followed by two segment entries, one of them out of bounds.
C16_Witness ==
  /\ SymbolicSegmentCall /\ ~call.capHit
  /\ FlatCount >= 1 /\ Len(call.rl) >= FlatCount + 2
  /\ \E i \in (FlatCount + 1)..Len(call.rl) :
       ~mayBeTrue(call.p, InBounds(call.rl[i][1]))

(***************************************************************************)
(* C17: for a pointer whose segment is symbolic and for which getValue     *)
(* yields a non-zero value s, resolveOne returns true, with success = true *)
(* and result = the object bound to s when s is in segmentMap, and with    *)
(* success = false when s is not bound.                                    *)
(***************************************************************************)
C17_SampledSegment ==
  ( /\ call.op = "resolveOne" /\ ~call.p.segConst
    /\ ~call.failed /\ call.seg > 0 )
  => LET mo == segmentMap[call.as][call.seg] IN
       /\ call.ret
       /\ call.success <=> (mo # NoMO)
       /\ mo # NoMO => call.result = <<mo, objects[call.as][mo]>>

(***************************************************************************)
(* C18: with a non-zero timeout, at the start of every iteration of        *)
(* resolve's backward walk, forward walk and segment-map loop, if the      *)
(* elapsed time exceeds the timeout then resolve returns true at once,     *)
(* issuing no further solver query and keeping every entry already         *)
(* appended to the resolution list; with timeout 0 no call returns because *)
(* of elapsed time.                                                        *)
(***************************************************************************)
\* The same call when the time never exceeds the timeout.
Untimed ==
  resolve(call.as, call.p, [call.o EXCEPT !.timeoutAt = 0], call.maxResolutions)

\* Query i of the trace tr is the first of a loop iteration: the bounds check
\* of a backward step, the cut-off query of a forward step, or the segment
\* query of a segmentMap entry.
StartsIteration(tr, i) ==
  \/ tr[i][2][1] = "ult"
  \/ /\ tr[i][1] = "mayBeTrue" /\ tr[i][2][1] = "inBounds"
     /\ (i = 1 \/ tr[i - 1][2][1] # "ult")
  \/ tr[i][2][1] = "segment" /\ tr[i][2][2] # 0

\* Query i of tr is one whose answer TRUE appends an object.
Appends(tr, i) ==
  /\ tr[i][1] = "mayBeTrue"
  /\ \/ tr[i][2][1] = "inBounds"
     \/ tr[i][2][1] = "segment" /\ tr[i][2][2] # 0
  /\ mayBeTrue(call.p, tr[i][2])

C18_TimeoutAtIterationStart ==
  call.op = "resolve" =>
    LET n == call.o.timeoutAt
        u == Untimed
        tr == u.e.trace
        starts == {i \in 1..Len(tr) : StartsIteration(tr, i)}
        \* the queries made before iteration n starts
        before == {i \in 1..Len(tr) :
                     Cardinality({j \in starts : j <= i}) < n}
        pushed == Cardinality({i \in before : Appends(tr, i)})
    IN IF n > 0 /\ Cardinality(starts) >= n
       THEN /\ call.timedOut /\ call.ret
            /\ call.trace = SubSeq(tr, 1, Cardinality(before))
            /\ call.rl = SubSeq(u.e.rl, 1, pushed)
       ELSE /\ ~call.timedOut
            /\ call.ret = u.ret /\ call.rl = u.e.rl /\ call.trace = tr

\* The timeout is seen at the start of the second segmentMap iteration, the
\* first having appended its object.
C18_Witness ==
  /\ call.op = "resolve" /\ call.timedOut /\ call.ret
  /\ call.t = 2 /\ Len(call.rl) = 1 /\ call.origin[1] = "segmentMap"

(***************************************************************************)
(*          Passing memory to externals: copyOutConcretes and              *)
(*                          copyInConcretes                                *)
(*                                                                         *)
(* The concrete store of an object state is one byte here, and so is the   *)
(* native memory at an object's address.  A is user-specified.             *)
(***************************************************************************)
isUserSpecified(mo) == mo = "A"

CopyObjects == {"A", "B", "S"}

NothingWritten == -1

\* copyOutConcretes: what memcpy writes to each object's native address.
copyOutConcretes_UserSpecifiedToo(a) ==
  [mo \in MemoryObjects |->
     IF objects[a][mo] # NoOS /\ ~heap[objects[a][mo]].readOnly
     THEN heap[objects[a][mo]].concreteStore
     ELSE NothingWritten]

copyOutConcretes(a) ==
  [mo \in MemoryObjects |->
     IF objects[a][mo] # NoOS /\ ~isUserSpecified(mo)
        /\ ~heap[objects[a][mo]].readOnly
     THEN heap[objects[a][mo]].concreteStore
     ELSE NothingWritten]

CopyOutConcretes(a) ==
  /\ ~aborted /\ Live(a) /\ call = NoCall
  /\ call' = [op |-> "copyOutConcretes", as |-> a, written |-> copyOutConcretes(a)]
  /\ last' = "copyOutConcretes"
  /\ UNCHANGED <<cowKey, objects, segmentMap, heap, nextKey, aborted>>

\* copyInConcrete(mo, os, src_address): st is the heap and the objects map
\* as the call has left them so far, byte the native memory at src_address.
\* ret is the value returned, ok = FALSE a failed assertion of getWriteable,
\* copied the objects whose native bytes memcpy has put into their state.
copyInConcrete_NoReadOnlyTest(a, mo, os, byte, st) ==
  IF byte # st.heap[os].concreteStore
  THEN LET w == getWriteable(a, mo, os) IN
         IF ~w.ok THEN [st EXCEPT !.ok = FALSE]
         ELSE [st EXCEPT
                 !.heap = [@ EXCEPT ![w.ret] =
                             [w.heap[w.ret] EXCEPT !.concreteStore = byte]],
                 !.objects = [@ EXCEPT ![a][mo] = w.ret],
                 !.copied = @ \cup {mo}]
  ELSE st

copyInConcrete(a, mo, os, byte, st) ==
  IF byte # st.heap[os].concreteStore
  THEN IF st.heap[os].readOnly
       THEN [st EXCEPT !.ret = FALSE]
       ELSE LET w == getWriteable(a, mo, os) IN
              IF ~w.ok THEN [st EXCEPT !.ok = FALSE]
              ELSE [st EXCEPT
                      !.heap = [@ EXCEPT ![w.ret] =
                                  [w.heap[w.ret] EXCEPT !.concreteStore = byte]],
                      !.objects = [@ EXCEPT ![a][mo] = w.ret],
                 !.copied = @ \cup {mo}]
  ELSE st

\* copyInConcretes: the loop over objects, in address order.
RECURSIVE copyInConcretes(_, _, _, _)
copyInConcretes(a, native, visits, state) ==
  Value({
    IF list = <<>> THEN st
    ELSE
      LET mo == Head(list) IN
        IF isUserSpecified(mo)
        THEN copyInConcretes(a, native, Tail(list), st)
        ELSE Value({
          IF ~r.ret \/ ~r.ok THEN r
          ELSE copyInConcretes(a, native, Tail(list), r)
          : r \in {copyInConcrete(a, mo, objects[a][mo], native[mo], st)}})
    : list \in {visits}, st \in {state}})

\* The bound objects for which copyInConcrete has getWriteable clone the state.
ClonesNeeded(a, native) ==
  {mo \in Bound(a) :
     /\ ~isUserSpecified(mo)
     /\ native[mo] # heap[objects[a][mo]].concreteStore
     /\ ~heap[objects[a][mo]].readOnly
     /\ heap[objects[a][mo]].copyOnWriteOwner # cowKey[a]}

\* The memory holds one clone per call.
CopyInConcretes(a, native) ==
  /\ ~aborted /\ Live(a) /\ call = NoCall
  /\ Cardinality(ClonesNeeded(a, native)) <= Cardinality(FreeCells)
  /\ Cardinality(ClonesNeeded(a, native)) <= 1
  /\ LET r == copyInConcretes(a, native, Ascending(Bound(a)),
                              [heap |-> heap, objects |-> objects,
                               ret |-> TRUE, ok |-> TRUE,
                               copied |-> {}]) IN
       /\ aborted' = ~r.ok
       /\ objects' = r.objects
       /\ heap' = Release(r.heap, r.objects)
       /\ call' = [op |-> "copyInConcretes", as |-> a, ret |-> r.ret,
                   native |-> native, copied |-> r.copied]
  /\ last' = "copyInConcretes"
  /\ UNCHANGED <<cowKey, segmentMap, nextKey>>

\* What native memory may hold after an external call, at the addresses that
\* copyInConcretes reads.
NativeMemories == [{mo \in CopyObjects : ~isUserSpecified(mo)} -> Bytes]

(***************************************************************************)
(* SpecCopy: an address space, forked once or not at all, is populated and *)
(* then its objects are copied out and in around an external call.         *)
(***************************************************************************)
Populating == last \notin {"copyOutConcretes", "copyInConcretes"}

NextCopy ==
  \/ Populating /\ \E ro \in BOOLEAN, v \in Bytes : NewObjectState(ro, v)
  \/ Populating /\ \E mo \in CopyObjects, o \in ObjectStates : BindObject(1, mo, o)
  \/ Populating /\ nextKey = 1 /\ Fork(1)
  \/ Populating /\ CopyOutConcretes(1)
  \/ last = "copyOutConcretes" /\ \E native \in NativeMemories : CopyInConcretes(1, native)
  \/ Return

SpecCopy == Init /\ [][NextCopy]_vars

(***************************************************************************)
(* C19: copyOutConcretes writes the concrete byte-plane of every bound     *)
(* object that is not user-specified to the object's native address, and   *)
(* writes nothing for user-specified objects.                              *)
(* As stated this fails: the state of a read-only object is not written    *)
(* (line 397).                                                             *)
(***************************************************************************)
C19_Original ==
  call.op = "copyOutConcretes" =>
    \A mo \in MemoryObjects :
      call.written[mo] =
        IF mo \in Bound(call.as) /\ ~isUserSpecified(mo)
        THEN heap[objects[call.as][mo]].concreteStore
        ELSE NothingWritten

\* C19 amended: copyOutConcretes writes the concrete byte-plane of every
\* bound object that is neither user-specified nor read-only to the object's
\* native address, and writes nothing for any other object.
C19_WritableWritten ==
  call.op = "copyOutConcretes" =>
    \A mo \in MemoryObjects :
      call.written[mo] =
        IF /\ mo \in Bound(call.as)
           /\ ~isUserSpecified(mo)
           /\ ~heap[objects[call.as][mo]].readOnly
        THEN heap[objects[call.as][mo]].concreteStore
        ELSE NothingWritten

C19_Witness ==
  /\ call.op = "copyOutConcretes"
  /\ \E mo \in Bound(call.as) :
       /\ ~isUserSpecified(mo)
       /\ call.written[mo] = heap[objects[call.as][mo]].concreteStore
  /\ \E mo \in Bound(call.as) :
       /\ isUserSpecified(mo)
       /\ ~heap[objects[call.as][mo]].readOnly
       /\ call.written[mo] = NothingWritten

(***************************************************************************)
(* C20: copyInConcretes never calls getWriteable on a read-only object     *)
(* state, so the assertion of getWriteable does not fail there.  For a     *)
(* non-user-specified object whose native memory differs from its concrete *)
(* store it returns false if the state is read-only, and otherwise copies  *)
(* the native bytes into the state obtained from getWriteable (the state   *)
(* itself when the address space owns it, a clone it owns otherwise); it   *)
(* returns true exactly when no non-user-specified read-only object has    *)
(* diverged.  Objects that are user-specified, read-only or not diverged   *)
(* keep their state.                                                       *)
(***************************************************************************)
C20_CopyInReadOnlyFails ==
  [][(call = NoCall /\ call'.op = "copyInConcretes") =>
       LET a == call'.as
           native == call'.native
           Subject == {mo \in Bound(a) : ~isUserSpecified(mo)}
           Diverged(mo) == native[mo] # heap[objects[a][mo]].concreteStore
           Failing == {mo \in Subject :
                         Diverged(mo) /\ heap[objects[a][mo]].readOnly}
           Reached(mo) == \A f \in Failing : address(mo) < address(f)
       IN /\ ~aborted'
          /\ call'.ret <=> Failing = {}
          /\ \A mo \in Subject :
               (Diverged(mo) /\ ~heap[objects[a][mo]].readOnly /\ Reached(mo)) =>
                 LET os == objects[a][mo]
                     wos == objects'[a][mo] IN
                   /\ mo \in call'.copied
                   /\ heap'[wos].concreteStore = native[mo]
                   /\ heap'[wos].copyOnWriteOwner = cowKey[a]
                   /\ ~heap'[wos].readOnly
                   /\ (wos = os) <=> (heap[os].copyOnWriteOwner = cowKey[a])
          /\ \A mo \in Bound(a) :
               (isUserSpecified(mo) \/ ~Diverged(mo)
                  \/ heap[objects[a][mo]].readOnly \/ ~Reached(mo)) =>
                 /\ mo \notin call'.copied
                 /\ objects'[a][mo] = objects[a][mo]
                 /\ heap'[objects[a][mo]].concreteStore =
                      heap[objects[a][mo]].concreteStore]_vars

C20_Witness ==
  /\ call.op = "copyInConcretes"
  /\ ~call.ret
  /\ call.copied # {}
  /\ ~aborted

(***************************************************************************)
(* C21: in the flat walks of resolveOne and of resolve, objects are        *)
(* visited in strictly descending address order from the floor of the      *)
(* sampled example, then in strictly ascending order from the first object *)
(* above it.  In the backward walk each object is bounds-checked first,    *)
(* and once mustBeTrue(offset >= base) holds for an object no lower object *)
(* is queried; in the forward walk mustBeTrue(offset < base) is asked      *)
(* before the bounds check and, once it holds, neither the object nor any  *)
(* higher one is bounds-checked.                                           *)
(***************************************************************************)
ResolverCall == call.op \in {"resolveOne", "resolve"}

\* The queries of the flat walks, in the order they were made.
IsWalkQuery(x) == x[2][1] \in {"inBounds", "uge", "ult"}

Walk == SelectSeq(call.trace, IsWalkQuery)

\* The objects the walk queried, in the order it came to them.
RECURSIVE Visited(_)
Visited(w) ==
  IF w = <<>> THEN <<>>
  ELSE LET rest == Visited(Tail(w)) IN
         IF rest # <<>> /\ Head(rest) = Head(w)[2][2] THEN rest
         ELSE <<Head(w)[2][2]>> \o rest

WalkOrder ==
  LET w == Walk
      v == Visited(w)
      example == call.o.exOff
      back == Descending({mo \in Bound(call.as) : address(mo) <= example})
      forw == Ascending({mo \in Bound(call.as) : address(mo) > example})
      nb == Cardinality({i \in 1..Len(v) : address(v[i]) <= example})
  IN /\ nb <= Len(back) /\ Len(v) - nb <= Len(forw)
     /\ \A i \in 1..Len(v) :
          v[i] = IF i <= nb THEN back[i] ELSE forw[i - nb]
     /\ \A i \in 1..(nb - 1) : address(v[i + 1]) < address(v[i])
     /\ \A i \in (nb + 1)..(Len(v) - 1) : address(v[i]) < address(v[i + 1])

BackwardCutOff ==
  LET w == Walk
      example == call.o.exOff
  IN \A i \in 1..Len(w) :
       LET mo == w[i][2][2] IN
         address(mo) <= example =>
           /\ (i = 1 \/ w[i - 1][2][2] # mo) => w[i] = <<"mayBeTrue", InBounds(mo)>>
           /\ w[i][2][1] # "ult"
           /\ (w[i] = <<"mustBeTrue", Uge(mo)>> /\ mustBeTrue(call.p, Uge(mo))) =>
                \A j \in (i + 1)..Len(w) : address(w[j][2][2]) > example

ForwardCutOff ==
  LET w == Walk
      example == call.o.exOff
  IN \A i \in 1..Len(w) :
       LET mo == w[i][2][2] IN
         address(mo) > example =>
           /\ (i = 1 \/ w[i - 1][2][2] # mo) => w[i] = <<"mustBeTrue", Ult(mo)>>
           /\ w[i][2][1] # "uge"
           /\ (w[i] = <<"mustBeTrue", Ult(mo)>> /\ mustBeTrue(call.p, Ult(mo))) =>
                i = Len(w)

C21_WalkOrderAndCutOffs ==
  ResolverCall => (WalkOrder /\ BackwardCutOff /\ ForwardCutOff)

\* A resolve call that walked down over two objects, stopped at the cut-off
\* and walked up to the cut-off.
C21_Witness ==
  /\ call.op = "resolve"
  /\ LET w == Walk
         v == Visited(w)
     IN /\ Len(v) >= 3
        /\ address(v[2]) < address(v[1])
        /\ \E i \in 1..(Len(w) - 1) :
             /\ w[i][2][1] = "uge" /\ mustBeTrue(call.p, w[i][2])
             /\ w[i + 1][2][1] = "ult"
        /\ w[Len(w)][2][1] = "ult" /\ mustBeTrue(call.p, w[Len(w)][2])
        /\ ~call.failed

(***************************************************************************)
(* C22: for a flat pointer with symbolic offset whose every satisfying     *)
(* value lies inside some bound object, resolveOne commits to the object   *)
(* containing the sampled example using only the getValue query, with no   *)
(* mayBeTrue or mustBeTrue query.                                          *)
(* As stated this fails: the cheap search does not commit to a zero-sized  *)
(* object or to an object of symbolic size (lines 133-134).                *)
(***************************************************************************)
FlatSymbolicOffset ==
  /\ call.op = "resolveOne"
  /\ call.p.segConst /\ call.p.segs = {0} /\ ~call.p.offConst
  /\ ~call.failed

\* Every satisfying value lies inside some bound object.
AlwaysInBounds ==
  \A v \in Assignments(call.p) :
    \E mo \in Bound(call.as) : getBoundsCheckPointer(mo, v)

\* The call committed to an object containing the example, having asked
\* getValue only.
CheapCommit ==
  /\ call.ret /\ call.successSet /\ call.success
  /\ call.trace = <<(<<"getValue", Example("offset")>>)>>
  /\ call.result = lookup(call.as, call.result[1])
  /\ call.result[1] \in Bound(call.as)
  /\ \A v \in Assignments(call.p) :
       v[2] = call.o.exOff => getBoundsCheckPointer(call.result[1], v)

ExampleInConcreteFloor ==
  LET mo == lookup_previous(call.as, call.o.exOff) IN
    /\ mo # NoMO /\ sizeIsConstant(mo)
    /\ (call.o.exOff - address(mo)) % AddressModulus < size(mo)

FlatResolve ==
  /\ call.op = "resolve"
  /\ call.p.segConst /\ call.p.segs = {0}
  /\ ~call.failed /\ ~call.timedOut

C23_FastPathTwoQueries ==
  FlatResolve =>
    \A mo \in Bound(call.as) :
      mustBeTrue(call.p, InBounds(mo)) =>
        /\ call.trace = <<(<<"getValue", Example("offset")>>),
                          (<<"mayBeTrue", InBounds(mo)>>),
                          (<<"mustBeTrue", InBounds(mo)>>)>>
        /\ ~call.ret
        /\ call.rl = <<lookup(call.as, mo)>>

\* The pointer has a symbolic offset and must lie in an object that has
\* neighbours on both sides.
C23_Witness ==
  /\ FlatResolve /\ ~call.p.offConst
  /\ \E mo \in Bound(call.as) :
       /\ mustBeTrue(call.p, InBounds(mo))
       /\ call.rl = <<lookup(call.as, mo)>>
       /\ call.q = 3
       /\ \E lo \in Bound(call.as), hi \in Bound(call.as) :
            address(lo) < address(mo) /\ address(mo) < address(hi)

(***************************************************************************)
(* C24: for every fully concrete flat pointer (segment 0, constant         *)
(* address) over non-overlapping bound objects, with a non-failing exact   *)
(* solver, no timeout and no cap, the two resolvers agree: resolve returns *)
(* complete with the list [mo] exactly when resolveOne reports success     *)
(* with result mo, and complete with the empty list exactly when           *)
(* resolveOne reports success = false.                                     *)
(***************************************************************************)
\* The solver answering every query, sampling the only value of a constant
\* pointer, with no timeout.
ExactOracle(p) ==
  [exSeg |-> Value(p.segs), exOff |-> Value(p.offs), failAt |-> 0, timeoutAt |-> 0]

C24_ResolversAgree ==
  (ConstantCall /\ call.p.segs = {0}) =>
    LET r == resolve(call.as, call.p, ExactOracle(call.p), 0) IN
      /\ ~r.ret
      /\ \/ call.success /\ r.e.rl = <<call.result>>
         \/ ~call.success /\ r.e.rl = <<>>

(***************************************************************************)
(*        The readers: findObject and the resolvers as operations of       *)
(*        an address space, resolve being given a list that may already    *)
(*        hold resolutions                                                 *)
(***************************************************************************)
\* The call state of resolve when the caller's rl holds rl0.
StartWith(rl0) ==
  [Start EXCEPT !.rl = rl0, !.origin = [i \in 1..Len(rl0) |-> "caller"]]

\* AddressSpace::resolve, lines 245-281, on a list that holds rl0.
resolveInto(a, p, o, maxResolutions, rl0) ==
  IF p.segConst
  THEN resolveConstantSegment(a, p, Value(p.segs), o, StartWith(rl0), maxResolutions)
  ELSE
    LET e1 == Ask(StartWith(rl0), o, "mayBeTrue", SegmentIs(0)) IN
      IF e1.failed THEN [ret |-> TRUE, e |-> e1]
      ELSE IF mayBeTrue(p, SegmentIs(0))
      THEN Value({
        IF zero.ret THEN [ret |-> TRUE, e |-> zero.e]
        ELSE resolveSegments(a, p, o, SegmentKeys(a), zero.e)
        : zero \in {resolveConstantSegment(a, p, 0, o, e1, maxResolutions)}})
      ELSE resolveSegments(a, p, o, SegmentKeys(a), e1)

\* The list a caller holds from an earlier resolution: the lowest bound
\* object, or nothing.
PriorList(a) ==
  IF Bound(a) = {} THEN <<>> ELSE <<lookup(a, Head(Ascending(Bound(a))))>>

ResolveInto(a, p, o, maxResolutions) ==
  /\ call = NoCall /\ Live(a) /\ WellFormed(p) /\ OneEvent(o)
  /\ LET r == resolveInto(a, p, o, maxResolutions, PriorList(a)) IN
       call' = [op |-> "resolve", as |-> a, p |-> p, ret |-> r.ret,
                maxResolutions |-> maxResolutions,
                rl0 |-> PriorList(a),
                rl |-> r.e.rl, origin |-> r.e.origin,
                failed |-> r.e.failed, timedOut |-> r.e.timedOut,
                capHit |-> r.e.capHit, q |-> r.e.q, t |-> r.e.t,
                trace |-> r.e.trace, o |-> o]
  /\ UNCHANGED <<cowKey, objects, segmentMap, heap, nextKey, aborted, last>>

FindObject(a, mo) ==
  /\ call = NoCall /\ Live(a)
  /\ call' = [op |-> "findObject", as |-> a, mo |-> mo, ret |-> findObject(a, mo)]
  /\ UNCHANGED <<cowKey, objects, segmentMap, heap, nextKey, aborted, last>>

NextReaders ==
  \/ \E mo \in MemoryObjects : FindObject(1, mo)
  \/ call = NoCall /\ \E p \in Pointers : \E o \in Oracles(p) : ResolveOne(1, p, o)
  \/ call = NoCall /\ \E p \in Pointers : \E o \in Oracles(p), k \in {0, MaxResolutions} :
                        ResolveInto(1, p, o, k)
  \/ Return

SpecReaders == InitResolve /\ [][NextReaders]_vars

(***************************************************************************)
(* C25: findObject, resolveConstantAddress, resolveOne and resolve are     *)
(* pure reads of the address space: whatever the solver answers, failures  *)
(* and timeouts included, they leave objects, segmentMap, cowKey and the   *)
(* copyOnWriteOwner and contents of every object state unchanged; resolve  *)
(* changes only the resolution list, and only by appending to it.          *)
(***************************************************************************)
IsPrefix(s1, s2) == Len(s1) <= Len(s2) /\ SubSeq(s2, 1, Len(s1)) = s1

C25_PureReads ==
  [][(call = NoCall /\ call'.op \in {"findObject", "resolveOne", "resolve"}) =>
       /\ objects' = objects
       /\ segmentMap' = segmentMap
       /\ cowKey' = cowKey
       /\ heap' = heap
       /\ call'.op = "resolve" => IsPrefix(call'.rl0, call'.rl)]_vars

\* A resolve call that the solver or the clock cut short after it had
\* appended to a list that was not empty.
C25_Witness ==
  /\ call.op = "resolve"
  /\ call.rl0 # <<>>
  /\ Len(call.rl) > Len(call.rl0)
  /\ call.failed \/ call.timedOut

(***************************************************************************)
(* C26: for a flat pointer (concrete segment 0, symbolic offset) over      *)
(* non-overlapping bound objects and an exact non-failing solver, if       *)
(* resolveOne returns true with success = false then no bound object may   *)
(* contain the pointer: mustBeTrue(not bounds_check(mo, p)) holds for      *)
(* every bound mo, so the cut-offs of the walks never skip an object the   *)
(* pointer could designate.                                                *)
(***************************************************************************)
NoObjectFound ==
  FlatSymbolicOffset /\ call.ret /\ call.successSet /\ ~call.success

C26_NoObjectMayContain ==
  NoObjectFound =>
    \A mo \in Bound(call.as) : ~mayBeTrue(call.p, InBounds(mo))

\* No object found, one bound object having been skipped by a cut-off.
C26_Witness ==
  /\ NoObjectFound
  /\ Cardinality(Bound(call.as)) >= 3
  /\ \E mo \in Bound(call.as) :
       \A i \in 1..Len(call.trace) :
         call.trace[i][2][1] = "example" \/ call.trace[i][2][2] # mo
  /\ \E i \in 1..Len(call.trace) : call.trace[i][2][1] = "uge"
  /\ \E i \in 1..Len(call.trace) : call.trace[i][2][1] = "ult"

(***************************************************************************)
(* C27: a single call to resolve that starts with an empty resolution list *)
(* never appends the same memory object twice, for concrete-segment        *)
(* pointers (the backward and forward walks cover disjoint objects) and    *)
(* for symbolic-segment pointers (flat segment-0 enumeration followed by   *)
(* the segment-map loop).                                                  *)
(***************************************************************************)
C27_NoDuplicates ==
  call.op = "resolve" =>
    \A i \in 1..Len(call.rl), j \in 1..Len(call.rl) :
      i # j => call.rl[i][1] # call.rl[j][1]

(***************************************************************************)
(*     The resolvers on an address space that is bound, unbound, forked    *)
(*     and written to                                                      *)
(***************************************************************************)
LiveObjects == {"B", "S"}

\* The pointers with a constant offset.
ConstantOffsetPointers == {p \in Pointers : p.offConst}

\* The solver answering every query in time.
Answering(o) == o.failAt = 0 /\ o.timeoutAt = 0

Idle == call = NoCall

NextLive ==
  \/ Idle /\ NewObjectState(FALSE, 0)
  \/ Idle /\ \E mo \in LiveObjects, o \in ObjectStates : BindObject(1, mo, o)
  \/ Idle /\ \E mo \in LiveObjects : UnbindObject(1, mo)
  \/ Idle /\ nextKey = 1 /\ Fork(1)
  \/ Idle /\ \E mo \in LiveObjects : GetWriteable(1, mo)
  \/ Idle /\ \E p \in ConstantOffsetPointers :
               \E o \in Oracles(p) : Answering(o) /\ ResolveOne(1, p, o)
  \/ Idle /\ \E p \in ConstantOffsetPointers :
               \E o \in Oracles(p) : Answering(o) /\ Resolve(1, p, o, 0)
  \/ Return

SpecLive == Init /\ [][NextLive]_vars

(***************************************************************************)
(* C28: after any sequence of bindObject, unbindObject and getWriteable    *)
(* calls, every (mo, os) pair a resolver returns (resolveConstantAddress,  *)
(* the result of resolveOne, every entry resolve appends) is a current     *)
(* binding of that address space: findObject(mo) = os at the time of the   *)
(* call; an unbound object is never returned, and after getWriteable has   *)
(* replaced a shared state by an owned clone the resolvers return the      *)
(* clone, not the stale shared state.                                      *)
(***************************************************************************)
\* The pairs the call handed to its caller.
Returned ==
  IF call.op = "resolve" THEN {call.rl[i] : i \in 1..Len(call.rl)}
  ELSE IF call.op = "resolveOne" /\ call.result # NoPair THEN {call.result}
  ELSE {}

C28_ReturnsCurrentBinding ==
  \A pair \in Returned :
    /\ pair[1] \in MemoryObjects
    /\ pair[2] # NoOS
    /\ findObject(call.as, pair[1]) = pair[2]
    /\ heap[pair[2]].allocated

\* A resolver returns the clone that getWriteable has just bound, while the
\* forked address space still holds the shared state.
C28_Witness ==
  /\ last = "getWriteable" /\ ~aborted
  /\ call.op = "resolve"
  /\ \E pair \in Returned :
       /\ heap[pair[2]].copyOnWriteOwner = cowKey[1]
       /\ findObject(2, pair[1]) # NoOS
       /\ findObject(2, pair[1]) # pair[2]

(***************************************************************************)
(* C30: after any sequence of bindObject and unbindObject calls on memory  *)
(* objects with pairwise distinct addresses and pairwise distinct non-zero *)
(* segments, every segmentMap entry refers to an object that is a key of   *)
(* objects, so the unchecked dereference of objects.lookup(...) in         *)
(* resolveConstantAddress (non-zero segment) and in the segment-map loop   *)
(* of resolve never hits a missing entry.                                  *)
(***************************************************************************)
SegmentMapInObjects ==
  \A a \in AddressSpaces, s \in Segments :
    segmentMap[a][s] # NoMO => findObject(a, segmentMap[a][s]) # NoOS

\* What the resolvers took from objects.lookup(segmentMap entry).
Dereferenced ==
  IF call.op = "resolve"
  THEN {call.rl[i] : i \in {j \in 1..Len(call.rl) :
                              call.origin[j] \in {"segment", "segmentMap"}}}
  ELSE IF call.op = "resolveOne" /\ call.seg > 0 /\ call.result # NoPair
  THEN {call.result}
  ELSE {}

C30_NoSegmentMapDesync ==
  /\ SegmentMapInObjects
  /\ \A pair \in Dereferenced : pair[2] # NoOS

\* Both segmented objects have been bound, one has been unbound again, and
\* resolve has dereferenced the entry of the other.
C30_Witness ==
  /\ last = "unbindObject"
  /\ call.op = "resolve" /\ ~call.p.segConst
  /\ Dereferenced # {}
  /\ \E s \in Segments : segmentMap[1][s] # NoMO
  /\ \E mo \in LiveObjects : findObject(1, mo) = NoOS

(***************************************************************************)
(* C29: the flat constant-address resolver compares a - mo.address against *)
(* the full 64-bit concrete size of the object: for an object whose        *)
(* concrete size does not fit an unsigned (2^32 or more), every address a  *)
(* with a - mo.address < mo.size in 64-bit unsigned arithmetic resolves to *)
(* that object, in agreement with the comparison of the cheap search of    *)
(* resolveOne (line 134) on the same object and address.                   *)
(***************************************************************************)
\* The comparison of line 134 for the object mo and the address addr.
CheapSearchMatches(mo, addr) ==
  sizeIsConstant(mo) /\ (addr - address(mo)) % AddressModulus < size(mo)

C29_FullWidthSize ==
  (ConstantCall /\ call.p.segs = {0}) =>
    LET addr == Value(call.p.offs)
        mo == lookup_previous(call.as, addr)
    IN (/\ mo # NoMO
        /\ sizeIsConstant(mo)
        /\ size(mo) >= UnsignedModulus
        /\ CheapSearchMatches(mo, addr))
         => (call.success /\ call.result = lookup(call.as, mo))

====
